---- MODULE Spec2Model ----
(***************************************************************************)
(* A model of src/main.py, the converter of a 5emm JSON statblock to a     *)
(* javalent Fantasy Statblock.  parse_stats is a sequential program: the   *)
(* state is the input record json_stats, the output record stats it builds *)
(* field by field, its local dict saves, the exception that ended it (if   *)
(* any) and the record it returned (if any).  Text is modelled by TLA+     *)
(* strings, built with the same concatenations as the source.              *)
(***************************************************************************)
EXTENDS Integers, Sequences, FiniteSets, TLC

VARIABLES json_stats, pc, stats, saves, raised, returned

vars == <<json_stats, pc, stats, saves, raised, returned>>

(***************************************************************************)
(* Bounds of the model.                                                    *)
(***************************************************************************)
\* the hit-die counts tried are 0 .. MaxHD
MaxHD == 3
\* the additional damages of an attack are 0 .. MaxExtra
MaxExtra == 3
\* a multiattack group lists at most MaxRefs attack ids
MaxRefs == 3

(***************************************************************************)
(* The outcome of a call: a value or an exception.                         *)
(***************************************************************************)
Ok(v) == [ok |-> TRUE, val |-> v]

Raise(e) == [ok |-> FALSE, exc |-> e]

(***************************************************************************)
(* Strings.                                                                *)
(***************************************************************************)
\* f"{n}" of an int
Str(n) == ToString(n)

\* f"{n:+}" of an int
Signed(n) == IF n >= 0 THEN "+" \o ToString(n) ELSE ToString(n)

RECURSIVE Join(_, _)
\* sep.join(parts)
Join(sep, parts) ==
    IF parts = <<>> THEN ""
    ELSE IF Len(parts) = 1 THEN parts[1]
    ELSE parts[1] \o sep \o Join(sep, Tail(parts))

RECURSIVE Replace(_, _, _)
\* s.replace(old, new): every non-overlapping occurrence, left to right
Replace(s, old, new) ==
    LET hits == {i \in 1..(Len(s) - Len(old) + 1) :
                    SubSeq(s, i, i + Len(old) - 1) = old}
        first == CHOOSE i \in hits : \A j \in hits : i <= j
    IN IF hits = {} THEN s
       ELSE SubSeq(s, 1, first - 1) \o new
            \o Replace(SubSeq(s, first + Len(old), Len(s)), old, new)

LowerCase == "abcdefghijklmnopqrstuvwxyz"

UpperCase == "ABCDEFGHIJKLMNOPQRSTUVWXYZ"

\* the position of character c in alphabet, 0 when it is not there
IndexIn(c, alphabet) ==
    IF \E i \in 1..Len(alphabet) : SubSeq(alphabet, i, i) = c
    THEN CHOOSE i \in 1..Len(alphabet) : SubSeq(alphabet, i, i) = c
    ELSE 0

Upper(c) ==
    IF IndexIn(c, LowerCase) > 0
    THEN SubSeq(UpperCase, IndexIn(c, LowerCase), IndexIn(c, LowerCase))
    ELSE c

Lower(c) ==
    IF IndexIn(c, UpperCase) > 0
    THEN SubSeq(LowerCase, IndexIn(c, UpperCase), IndexIn(c, UpperCase))
    ELSE c

IsCased(c) == IndexIn(c, LowerCase) > 0 \/ IndexIn(c, UpperCase) > 0

RECURSIVE Concat(_, _, _)
\* the characters chars[lo], ..., chars[hi] as one string
Concat(chars, lo, hi) ==
    IF lo > hi THEN ""
    ELSE IF lo = hi THEN chars[lo]
    ELSE Concat(chars, lo, (lo + hi) \div 2)
         \o Concat(chars, (lo + hi) \div 2 + 1, hi)

\* str.title(): a cased character is upper case after an uncased one (or at
\* the start) and lower case after a cased one
Title(s) ==
    Concat([i \in 1..Len(s) |->
               IF i > 1 /\ IsCased(SubSeq(s, i - 1, i - 1))
               THEN Lower(SubSeq(s, i, i))
               ELSE Upper(SubSeq(s, i, i))],
           1, Len(s))

\* str.lower()
LowerStr(s) == Concat([i \in 1..Len(s) |-> Lower(SubSeq(s, i, i))], 1, Len(s))

\* num2words(n), for the counts the model uses
NumWords == <<"one", "two", "three", "four", "five", "six", "seven", "eight">>

num2words(n) == IF n = 0 THEN "zero" ELSE NumWords[n]

RECURSIVE StripZeros(_)
StripZeros(digits) ==
    IF Len(digits) > 1 /\ SubSeq(digits, Len(digits), Len(digits)) = "0"
    THEN StripZeros(SubSeq(digits, 1, Len(digits) - 1))
    ELSE digits

\* f"{a / b}" of two non-negative ints, b # 0: Python's true division gives a
\* float, printed with at least one fractional digit.  Exact for the
\* quotients that are a whole number of thousandths, which is what the
\* ranges of RangeValues give.
FloatStr(a, b) ==
    LET q    == (a * 1000) \div b
        frac == q % 1000
        pad  == IF frac < 10 THEN "00" ELSE IF frac < 100 THEN "0" ELSE ""
    IN Str(q \div 1000) \o "." \o StripZeros(pad \o Str(frac))

(***************************************************************************)
(* ABILITIES, in the order of the dict.                                    *)
(***************************************************************************)
ABILITIES == <<"STR", "DEX", "CON", "INT", "WIS", "CHA">>

AbilityNames == [STR |-> "strength", DEX |-> "dexterity", CON |-> "constitution",
                 INT |-> "intelligence", WIS |-> "wisdom", CHA |-> "charisma"]

(***************************************************************************)
(* The derivation functions.  A float that is a multiple of one half is    *)
(* held as its double, an integer number of halves.                        *)
(***************************************************************************)
\* calc_modifier with a slip: truncation toward zero instead of floor division
calc_modifier_trunc(score) ==
    IF score >= 10 THEN (score - 10) \div 2 ELSE -((10 - score) \div 2)

calc_modifier(score) == (score - 10) \div 2

\* (dice_type + 1) / 2, in halves
dice_avg(dice_type) == dice_type + 1

\* math.floor of a number of halves
floor(halves) == halves \div 2

calc_dice(count, dice_type) == floor(count * dice_avg(dice_type))

damage_str(count, dice_type, modifier, damage_type) ==
    Str(calc_dice(count, dice_type) + modifier) \o " "
    \o "(" \o Str(count) \o "d" \o Str(dice_type) \o Signed(modifier) \o ") "
    \o damage_type \o " damage"

(***************************************************************************)
(* Lookups and the text synthesis.                                         *)
(***************************************************************************)
HasKey(d, k) == k \in DOMAIN d

\* the first entry of seq whose id is id_ (there is one)
FirstWithId(seq, id_) ==
    seq[CHOOSE i \in 1..Len(seq) :
            /\ seq[i].id = id_
            /\ \A j \in 1..(i - 1) : seq[j].id # id_]

get_action(id_, js) ==
    IF \E i \in 1..Len(js.attacks) : js.attacks[i].id = id_
    THEN Ok(FirstWithId(js.attacks, id_))
    ELSE IF \E i \in 1..Len(js.actions) : js.actions[i].id = id_
    THEN Ok(FirstWithId(js.actions, id_))
    ELSE Raise("ValueError")

RECURSIVE Keys(_)
\* the keys of Counter(ids), in insertion (first-seen) order
Keys(ids) ==
    IF ids = <<>> THEN <<>>
    ELSE LET before == Keys(SubSeq(ids, 1, Len(ids) - 1))
             last   == ids[Len(ids)]
         IN IF \E k \in 1..Len(before) : before[k] = last
            THEN before
            ELSE Append(before, last)

\* Counter(ids).items(): <<id, count>> pairs
Counter(ids) ==
    [k \in 1..Len(Keys(ids)) |->
        <<Keys(ids)[k], Cardinality({i \in 1..Len(ids) : ids[i] = Keys(ids)[k]})>>]

\* AttackPhrase with a slip: "and " before the last phrase even when it is
\* the only one
AttackPhraseAlwaysAnd(index, n, count, name) ==
    (IF index = n - 1 THEN "and " ELSE "")
    \o num2words(count) \o " " \o name \o " attack"
    \o (IF count > 1 THEN "s" ELSE "")

\* the text of one collated attack; index counts from 0, n = len(items)
AttackPhrase(index, n, count, name) ==
    (IF index = n - 1 /\ n > 1 THEN "and " ELSE "")
    \o num2words(count) \o " " \o name \o " attack"
    \o (IF count > 1 THEN "s" ELSE "")

\* the name of a resolved id
NameOf(id_, js) == get_action(id_, js).val.name

\* one pass of the loop over json_stats["multiattacks"]
RenderMultiattack(ma, js) ==
    LET items == Counter(ma.attacks)
        collated_actions == Counter(ma.actions)
        rendered == [k \in 1..Len(items) |->
                        AttackPhrase(k - 1, Len(items), items[k][2],
                                     NameOf(items[k][1], js))]
        \* the action texts are appended to attacks; actions stays empty
        attacks == rendered \o
                   [k \in 1..Len(collated_actions) |->
                        num2words(collated_actions[k][2]) \o " "
                        \o NameOf(collated_actions[k][1], js)]
        actions == <<>>
    IN IF \E i \in 1..Len(ma.attacks) : ~get_action(ma.attacks[i], js).ok
       THEN Raise("ValueError")
       ELSE IF \E i \in 1..Len(ma.actions) : ~get_action(ma.actions[i], js).ok
       THEN Raise("ValueError")
       ELSE IF actions # <<>>
       THEN Ok(IF attacks # <<>>
               THEN "uses " \o Join(", ", actions) \o " followed by "
                    \o Join(", ", attacks)
               ELSE "")
       ELSE Ok("makes " \o Join(", ", attacks))

process_multiattack(js) ==
    LET groups == [g \in 1..Len(js.multiattacks) |->
                      RenderMultiattack(js.multiattacks[g], js)]
    IN IF \E g \in 1..Len(groups) : ~groups[g].ok
       THEN Raise("ValueError")
       ELSE Ok(js.name \o " "
               \o Join(" or ", [g \in 1..Len(groups) |-> groups[g].val]) \o ".")

process_description(description, js) ==
    LET prof_bonus == js.proficiency
        Bonus(a) == calc_modifier(js.stats[a]) + prof_bonus
        Tags(d, a) == Replace(Replace(d, "{DC:" \o a \o "}", "DC " \o Str(8 + Bonus(a))),
                              "{A:" \o a \o "}", Signed(Bonus(a)))
        d6 == Tags(Tags(Tags(Tags(Tags(Tags(description,
                  ABILITIES[1]), ABILITIES[2]), ABILITIES[3]),
                  ABILITIES[4]), ABILITIES[5]), ABILITIES[6])
        name_str == IF js.useArticleInToken THEN "the " \o js.name ELSE js.name
        d7 == Replace(Replace(d6, "{monster.name}", name_str), "{NAME}", name_str)
        d8 == Replace(d7, "{monster.proficiency}", Str(prof_bonus))
        d9 == Replace(d8, "{monster.AC}", Str(js.AC))
        dice_count == js.HP.HD
        hp_bonus == calc_modifier(js.stats["CON"]) * dice_count
    IN Replace(d9, "{monster.hp}",
               Str(dice_count) \o "d" \o Str(js.HP.type) \o Signed(hp_bonus))

\* an override, or the modifier of the named ability
ResolveModifier(modifier, js) ==
    IF modifier.override THEN modifier.overrideValue
    ELSE calc_modifier(js.stats[modifier.stat])

\* ExtraSeparator with a slip: the ", and " comes one element late
ExtraSeparatorLate(i, n) ==
    IF i = n THEN ", and " ELSE IF i < n THEN ", " ELSE ""

\* what follows the i-th of n additional damages, i from 1
ExtraSeparator(i, n) ==
    IF i = n - 1 THEN ", and " ELSE IF i < n THEN ", " ELSE ""

RECURSIVE ExtraFrom(_, _)
\* the loop over additional_damages, from its i-th element on
ExtraFrom(additional, i) ==
    IF i > Len(additional) THEN ""
    ELSE damage_str(additional[i].count, additional[i].dice, 0, additional[i].type)
         \o ExtraSeparator(i, Len(additional))
         \o ExtraFrom(additional, i + 1)

AdditionalDamageText(additional) ==
    IF additional # <<>> THEN " plus " \o ExtraFrom(additional, 1) ELSE ""

\* the range clause of a RANGED or BOTH attack: standard / long is a division
RangeClause(range) ==
    IF range.long = 0 THEN Raise("ZeroDivisionError")
    ELSE Ok("range " \o FloatStr(range.standard, range.long) \o " ft.")

\* attack_str of one pass of the loop of process_attacks
AttackStr(attack, js) ==
    LET distance == IF attack.distance = "BOTH" THEN "Melee or Ranged"
                    ELSE attack.distance
        head == Title(distance \o " " \o attack.kind \o " Attack: ")
        to_hit == Signed(ResolveModifier(attack.modifier, js)) \o " to hit, "
        reach == IF attack.distance \in {"BOTH", "MELEE"}
                 THEN "reach " \o Str(attack.range.reach) \o " ft." ELSE ""
        range_ == IF attack.distance \in {"BOTH", "RANGED"}
                  THEN RangeClause(attack.range) ELSE Ok("")
        targets == num2words(attack.targets) \o " target"
                   \o (IF attack.targets > 1 THEN "s" ELSE "") \o ". "
    IN IF ~range_.ok THEN range_
       ELSE Ok(head \o to_hit
               \o Join(" or ", SelectSeq(<<reach, range_.val>>, LAMBDA t : t # ""))
               \o ", " \o targets)

\* description of one pass of the loop of process_attacks
AttackDescription(attack, js) ==
    LET damage == damage_str(attack.damage.count, attack.damage.dice,
                             ResolveModifier(attack.damage.modifier, js),
                             attack.damage.type)
        alt == attack.alternateDamage
        alternate == IF alt.active
                     THEN ", or "
                          \o damage_str(alt.count, alt.dice,
                                        ResolveModifier(alt.modifier, js),
                                        attack.damage.type)
                          \o " " \o alt.condition
                     ELSE ""
    IN "Hit: " \o damage \o alternate
       \o AdditionalDamageText(attack.additionalDamage) \o "."
       \o (IF attack.description # "" THEN " " \o attack.description ELSE "")

\* one pass of the loop of process_attacks: attack_str is built and never
\* used, the entry holds the description alone
RenderAttack(attack, js) ==
    IF ~AttackStr(attack, js).ok THEN AttackStr(attack, js)
    ELSE Ok([name |-> attack.name,
             desc |-> process_description(AttackDescription(attack, js), js)])

process_attacks(js) ==
    LET each == [i \in 1..Len(js.attacks) |-> RenderAttack(js.attacks[i], js)]
    IN IF \E i \in 1..Len(each) : ~each[i].ok
       THEN Raise("ZeroDivisionError")
       ELSE Ok([i \in 1..Len(each) |-> each[i].val])

process_action(action, js) ==
    LET limited == HasKey(action, "limitedUse") /\ action.limitedUse.count # 0
    IN [name |-> IF limited
                 THEN action.name \o " (" \o Str(action.limitedUse.count) \o "/day)"
                 ELSE action.name,
        desc |-> process_description(action.description, js)]

\* the entry one pass of the loop of process_legendary_actions builds
LegendaryEntry(action_info, js) ==
    LET action == get_action(action_info.actionId, js).val
        entry == IF action.legendaryOnly
                 THEN process_action(action, js)
                 ELSE [name |-> action.name,
                       desc |-> "The " \o js.name \o " uses its " \o action.name
                                \o " action."]
    IN IF action_info.cost # 1
       THEN [entry EXCEPT !.name = @ \o " (Costs " \o Str(action_info.cost)
                                     \o " Actions)"]
       ELSE entry

\* the entries are built and dropped: nothing is appended to actions
process_legendary_actions(js) ==
    LET refs == js.legendaryActions.actions
        built == [i \in 1..Len(refs) |-> LegendaryEntry(refs[i], js)]
        \* no element of built is appended
        actions == <<>>
    IN IF \E i \in 1..Len(refs) : ~get_action(refs[i].actionId, js).ok
       THEN Raise("ValueError")
       ELSE Ok(actions)

SpeedText(speed) ==
    (IF speed.type = "walk" THEN Str(speed.speed) \o " ft."
     ELSE speed.type \o " " \o Str(speed.speed) \o " ft.")
    \o (IF speed.note # "" THEN " (" \o speed.note \o ")" ELSE "")

process_speed(js) ==
    Join(", ", [i \in 1..Len(js.speeds) |-> SpeedText(js.speeds[i])])

(***************************************************************************)
(* The inputs: a base monster, and the fields the families below vary.     *)
(***************************************************************************)
NoOverride(stat) == [override |-> FALSE, overrideValue |-> 0, stat |-> stat]

NoAlternate ==
    [active |-> FALSE, count |-> 1, dice |-> 8, modifier |-> NoOverride("STR"),
     condition |-> "if used with two hands"]

TwoHanded == [NoAlternate EXCEPT !.active = TRUE]

Bite ==
    [id |-> "a1", name |-> "Bite", kind |-> "weapon", distance |-> "MELEE",
     range |-> [reach |-> 5, standard |-> 20, long |-> 80],
     modifier |-> NoOverride("DEX"),
     damage |-> [count |-> 2, dice |-> 6, type |-> "piercing",
                 modifier |-> NoOverride("DEX")],
     alternateDamage |-> NoAlternate, additionalDamage |-> <<>>,
     targets |-> 1, description |-> "", legendaryOnly |-> FALSE]

Claw ==
    [Bite EXCEPT !.id = "a2", !.name = "Claw", !.targets = 2,
                 !.modifier = [override |-> TRUE, overrideValue |-> 5, stat |-> "STR"],
                 !.damage.type = "slashing",
                 !.description = "{DC:STR} or prone."]

NoLimit == [count |-> 0, rate |-> "DAY"]

Roar ==
    [id |-> "x1", name |-> "Roar", description |-> "{NAME} roars.",
     limitedUse |-> [count |-> 1, rate |-> "DAY"],
     legendaryOnly |-> FALSE, bonusAction |-> FALSE]

Sweep ==
    [id |-> "x2", name |-> "Sweep", description |-> "A tail sweep.",
     limitedUse |-> NoLimit, legendaryOnly |-> TRUE, bonusAction |-> FALSE]

Dash ==
    [id |-> "x3", name |-> "Dash", description |-> "It dashes.",
     legendaryOnly |-> FALSE, bonusAction |-> TRUE]

Parry ==
    [id |-> "r1", name |-> "Parry", description |-> "{A:DEX} to AC.",
     limitedUse |-> NoLimit]

Keen == [name |-> "Keen", description |-> "AC {monster.AC}.", limitedUse |-> NoLimit]

Rage ==
    [name |-> "Rage", description |-> "{monster.hp}",
     limitedUse |-> [count |-> 3, rate |-> "DAY"]]

NoSave == [proficient |-> FALSE, override |-> FALSE, overrideValue |-> 0]

SaveSpecs ==
    {NoSave,
     [NoSave EXCEPT !.proficient = TRUE],
     [NoSave EXCEPT !.override = TRUE, !.overrideValue = 7],
     [proficient |-> TRUE, override |-> TRUE, overrideValue |-> -1]}

Perception ==
    [skill |-> [label |-> "Perception", stat |-> "WIS"], proficient |-> TRUE,
     expertise |-> TRUE, override |-> FALSE, overrideValue |-> 0]

Stealth ==
    [skill |-> [label |-> "Stealth", stat |-> "DEX"], proficient |-> FALSE,
     expertise |-> FALSE, override |-> TRUE, overrideValue |-> 6]

Base ==
    [name |-> "Orc", size |-> "Medium", type |-> "humanoid",
     alignment |-> "chaotic evil", languages |-> "Common, Orc",
     useArticleInToken |-> TRUE, proficiency |-> 2, AC |-> 13, CR |-> 1,
     stats |-> [STR |-> 16, DEX |-> 12, CON |-> 10, INT |-> 7, WIS |-> 11, CHA |-> 9],
     HP |-> [HD |-> 2, type |-> 8],
     saves |-> [a \in {ABILITIES[i] : i \in 1..6} |-> NoSave],
     skills |-> <<Perception, Stealth>>,
     senses |-> <<[sense |-> "darkvision", distance |-> 60],
                  [sense |-> "blindsight", distance |-> 0]>>,
     speeds |-> <<[type |-> "walk", speed |-> 30, note |-> ""],
                  [type |-> "fly", speed |-> 60, note |-> "hover"]>>,
     vulnerabilities |-> <<>>, resistances |-> <<"cold", "fire">>,
     immunities |-> <<"poison">>, conditions |-> <<"poisoned">>,
     traits |-> <<Keen>>,
     attacks |-> <<Bite, Claw>>,
     actions |-> <<Roar, Sweep, Dash>>,
     reactions |-> <<Parry>>,
     multiattacks |-> <<>>,
     legendaryActions |-> [actions |-> <<>>]]

\* the sequences over S of length lo .. hi
SeqsOf(S, lo, hi) == UNION {[1..n -> S] : n \in lo..hi}

DieTypes == {4, 7, 8}

ConScores == {7, 8, 10, 15}

\* the hit dice and the CON score vary
HPMonsters ==
    {[Base EXCEPT !.HP = [HD |-> n, type |-> d], !.stats.CON = s] :
        n \in 0..MaxHD, d \in DieTypes, s \in ConScores}

\* the saves of three abilities vary
SaveMonsters ==
    {[Base EXCEPT !.saves.STR = x, !.saves.CON = y, !.saves.WIS = z,
                  !.stats.CON = 7] :
        x \in SaveSpecs, y \in SaveSpecs, z \in SaveSpecs}

\* one multiattack group: attack ids and action ids, "zz" resolves to nothing
Groups ==
    {[attacks |-> a, actions |-> x] :
        a \in SeqsOf({"a1", "a2", "zz"}, 0, MaxRefs),
        x \in {<<>>, <<"x1">>, <<"x1", "x1">>, <<"zz">>}}

FewGroups ==
    {[attacks |-> <<"a1", "a1", "a2">>, actions |-> <<>>],
     [attacks |-> <<"a2">>, actions |-> <<"x1">>],
     [attacks |-> <<>>, actions |-> <<"x1">>],
     [attacks |-> <<"zz">>, actions |-> <<>>]}

MultiattackMonsters ==
    {[Base EXCEPT !.multiattacks = m] :
        m \in SeqsOf(Groups, 0, 1) \cup SeqsOf(FewGroups, 2, 2)}

ExtraPool ==
    <<[count |-> 1, dice |-> 6, type |-> "cold"],
      [count |-> 3, dice |-> 5, type |-> "fire"],
      [count |-> 2, dice |-> 4, type |-> "acid"],
      [count |-> 1, dice |-> 10, type |-> "necrotic"],
      [count |-> 2, dice |-> 8, type |-> "radiant"]>>

\* <<standard, long>>; a long range of 0 is a division by zero
RangeValues == {<<20, 80>>, <<40, 160>>, <<20, 160>>, <<60, 60>>, <<30, 0>>}

\* the first attack varies: distance, range, alternate and additional damage
AttackMonsters ==
    {[Base EXCEPT !.attacks[1].distance = d,
                  !.attacks[1].range.standard = r[1],
                  !.attacks[1].range.long = r[2],
                  !.attacks[1].alternateDamage = alt,
                  !.attacks[1].additionalDamage = SubSeq(ExtraPool, 1, k)] :
        d \in {"MELEE", "RANGED", "BOTH"}, r \in RangeValues,
        alt \in {NoAlternate, TwoHanded}, k \in 0..MaxExtra}

TraitMonsters ==
    {[Base EXCEPT !.traits = t] : t \in SeqsOf({Keen, Rage}, 0, 2)}

\* references to an attack, a legendary-only action, an action, and nothing
LegendaryRefs ==
    {[actionId |-> "a1", cost |-> 1], [actionId |-> "a1", cost |-> 2],
     [actionId |-> "x2", cost |-> 1], [actionId |-> "x1", cost |-> 3],
     [actionId |-> "zz", cost |-> 1]}

LegendaryMonsters ==
    {[Base EXCEPT !.legendaryActions.actions = l] : l \in SeqsOf(LegendaryRefs, 0, 2)}

\* unresolved ids together with the other ways a conversion can end
MixedMonsters ==
    {[Base EXCEPT !.traits = t, !.multiattacks = m,
                  !.attacks[1].distance = d, !.attacks[1].range.long = 0,
                  !.legendaryActions.actions = l] :
        t \in {<<>>, <<Rage>>},
        m \in {<<>>, <<[attacks |-> <<"a1">>, actions |-> <<>>]>>,
               <<[attacks |-> <<"a1">>, actions |-> <<"zz">>]>>},
        d \in {"MELEE", "RANGED"},
        l \in {<<>>, <<[actionId |-> "a2", cost |-> 1]>>,
               <<[actionId |-> "zz", cost |-> 2]>>}}

Monsters ==
    HPMonsters \cup SaveMonsters \cup MultiattackMonsters \cup AttackMonsters
    \cup TraitMonsters \cup LegendaryMonsters \cup MixedMonsters

(***************************************************************************)
(* parse_stats, one action per block of the function.                      *)
(***************************************************************************)
Init ==
    /\ json_stats \in Monsters
    /\ pc = "attributes"
    /\ stats = [layout |-> "Basic 5e Layout", dice |-> TRUE]
    /\ saves = [stat \in {} |-> 0]
    /\ raised = ""
    /\ returned = <<>>

\* the copied attributes, the one-liners, the speed and the ability scores
Attributes ==
    /\ pc = "attributes"
    /\ stats' = stats @@
          [name |-> json_stats.name, size |-> json_stats.size,
           type |-> json_stats.type, alignment |-> json_stats.alignment,
           languages |-> json_stats.languages,
           ac |-> json_stats.AC, cr |-> json_stats.CR,
           damage_vulnerabilities |-> Join(", ", json_stats.vulnerabilities),
           damage_resistances |-> Join(", ", json_stats.resistances),
           damage_immunities |-> Join(", ", json_stats.immunities),
           condition_immunities |-> Join(", ", json_stats.conditions),
           speed |-> process_speed(json_stats),
           abilities |-> [i \in 1..6 |-> json_stats.stats[ABILITIES[i]]]]
    /\ pc' = "hp"
    /\ UNCHANGED <<json_stats, saves, raised, returned>>

\* stats["hp"]: the floor of the sum of the dice average and the CON bonus
HitPointsOf(js) ==
    floor(dice_avg(js.HP.type) * js.HP.HD
          + 2 * (calc_modifier(js.stats["CON"]) * js.HP.HD))

HitPoints ==
    /\ pc = "hp"
    /\ stats' = stats @@
          [hp |-> HitPointsOf(json_stats),
           hit_dice |-> Str(json_stats.HP.HD) \o "d" \o Str(json_stats.HP.type)]
    /\ pc' = "saves"
    /\ UNCHANGED <<json_stats, saves, raised, returned>>

\* the dict saves the loop over ABILITIES fills
SavesOf(js) ==
    LET has == {a \in DOMAIN AbilityNames :
                    js.saves[a].override \/ js.saves[a].proficient}
        abbr(stat) == CHOOSE a \in has : AbilityNames[a] = stat
    IN [stat \in {AbilityNames[a] : a \in has} |->
           IF js.saves[abbr(stat)].override
           THEN js.saves[abbr(stat)].overrideValue
           ELSE calc_modifier(js.stats[abbr(stat)]) + js.proficiency]

\* saves is a local of parse_stats: no field of stats is set from it
SavingThrows ==
    /\ pc = "saves"
    /\ saves' = SavesOf(json_stats)
    /\ pc' = "skills"
    /\ UNCHANGED <<json_stats, stats, raised, returned>>

SkillBonus(json_skill, js) ==
    IF json_skill.override THEN json_skill.overrideValue
    ELSE calc_modifier(js.stats[json_skill.skill.stat]) + js.proficiency
         + (IF json_skill.expertise THEN js.proficiency ELSE 0)

\* the dict skills; a later entry of the same name replaces an earlier one
SkillsOf(js) ==
    LET kept == SelectSeq(js.skills, LAMBDA k : k.override \/ k.proficient)
        last(name) == CHOOSE i \in 1..Len(kept) :
                          /\ LowerStr(kept[i].skill.label) = name
                          /\ \A j \in (i + 1)..Len(kept) :
                                 LowerStr(kept[j].skill.label) # name
    IN [name \in {LowerStr(kept[i].skill.label) : i \in 1..Len(kept)} |->
           SkillBonus(kept[last(name)], js)]

Skills ==
    /\ pc = "skills"
    /\ stats' = stats @@ [skillsaves |-> SkillsOf(json_stats)]
    /\ pc' = "senses"
    /\ UNCHANGED <<json_stats, saves, raised, returned>>

SensesOf(js, skills) ==
    LET seen == SelectSeq(js.senses, LAMBDA e : e.distance # 0)
        perception == IF "perception" \in DOMAIN skills
                      THEN skills["perception"] ELSE 0
    IN Join(", ", [i \in 1..Len(seen) |->
                      Title(seen[i].sense) \o " " \o Str(seen[i].distance) \o " ft."]
                  \o <<"Passive Perception " \o Str(perception)>>)

Senses ==
    /\ pc = "senses"
    /\ stats' = stats @@ [senses |-> SensesOf(json_stats, stats.skillsaves)]
    /\ pc' = "traits"
    /\ UNCHANGED <<json_stats, saves, raised, returned>>

\* name.append(...) on a str: a trait with a limited-use count ends the
\* conversion with an AttributeError
TraitsOf(js) ==
    IF \E i \in 1..Len(js.traits) : js.traits[i].limitedUse.count # 0
    THEN Raise("AttributeError")
    ELSE Ok([i \in 1..Len(js.traits) |->
                [name |-> js.traits[i].name,
                 desc |-> process_description(js.traits[i].description, js)]])

Traits ==
    /\ pc = "traits"
    /\ IF TraitsOf(json_stats).ok
       THEN /\ stats' = stats @@ [traits |-> TraitsOf(json_stats).val]
            /\ pc' = "actions"
            /\ raised' = raised
       ELSE /\ stats' = stats
            /\ pc' = "raised"
            /\ raised' = TraitsOf(json_stats).exc
    /\ UNCHANGED <<json_stats, saves, returned>>

\* the Multiattack entry: present when the text is a non-empty string
MultiattackEntries(text) ==
    IF text # "" THEN <<[name |-> "Multiattack", desc |-> text]>> ELSE <<>>

PlainActions(js) ==
    LET kept == SelectSeq(js.actions,
                          LAMBDA a : ~(a.legendaryOnly \/ a.bonusAction))
    IN [i \in 1..Len(kept) |-> process_action(kept[i], js)]

Actions ==
    /\ pc = "actions"
    /\ LET multiattack == process_multiattack(json_stats)
           attacks == process_attacks(json_stats)
       IN IF ~multiattack.ok
          THEN /\ stats' = stats @@ [actions |-> <<>>]
               /\ pc' = "raised"
               /\ raised' = multiattack.exc
          ELSE IF ~attacks.ok
          THEN /\ stats' = stats @@ [actions |-> MultiattackEntries(multiattack.val)]
               /\ pc' = "raised"
               /\ raised' = attacks.exc
          ELSE /\ stats' = stats @@
                     [actions |-> MultiattackEntries(multiattack.val)
                                  \o attacks.val \o PlainActions(json_stats)]
               /\ pc' = "reactions"
               /\ raised' = raised
    /\ UNCHANGED <<json_stats, saves, returned>>

Reactions ==
    /\ pc = "reactions"
    /\ stats' = stats @@
          [reactions |-> [i \in 1..Len(json_stats.reactions) |->
                             process_action(json_stats.reactions[i], json_stats)]]
    /\ pc' = "bonus_actions"
    /\ UNCHANGED <<json_stats, saves, raised, returned>>

BonusActions ==
    /\ pc = "bonus_actions"
    /\ LET kept == SelectSeq(json_stats.actions, LAMBDA a : a.bonusAction)
       IN stats' = stats @@
             [bonus_actions |-> [i \in 1..Len(kept) |->
                                    process_action(kept[i], json_stats)]]
    /\ pc' = "legendary_actions"
    /\ UNCHANGED <<json_stats, saves, raised, returned>>

LegendaryActions ==
    /\ pc = "legendary_actions"
    /\ LET legendary == process_legendary_actions(json_stats)
       IN IF legendary.ok
          THEN /\ stats' = stats @@ [legendary_actions |-> legendary.val]
               /\ pc' = "return"
               /\ raised' = raised
          ELSE /\ stats' = stats
               /\ pc' = "raised"
               /\ raised' = legendary.exc
    /\ UNCHANGED <<json_stats, saves, returned>>

Return ==
    /\ pc = "return"
    /\ returned' = <<stats>>
    /\ pc' = "done"
    /\ UNCHANGED <<json_stats, stats, saves, raised>>

Next ==
    \/ Attributes
    \/ HitPoints
    \/ SavingThrows
    \/ Skills
    \/ Senses
    \/ Traits
    \/ Actions
    \/ Reactions
    \/ BonusActions
    \/ LegendaryActions
    \/ Return

Spec == Init /\ [][Next]_vars

(***************************************************************************)
(* The properties checked.                                                 *)
(***************************************************************************)
\* parse_stats returned its record
Done == pc = "done"

\* parse_stats ended, by a return or by an exception
Ended == pc \in {"done", "raised"}

\* the block of parse_stats that builds the traits is behind
TraitsBehind ==
    pc \in {"actions", "reactions", "bonus_actions", "legendary_actions",
            "return", "done", "raised"}

\* process_attacks has run to its end
AttacksRendered ==
    pc \in {"reactions", "bonus_actions", "legendary_actions", "return", "done"}

\* sub occurs in s at position i
OccursAt(s, sub, i) == SubSeq(s, i, i + Len(sub) - 1) = sub

Occurrences(s, sub) == {i \in 1..(Len(s) - Len(sub) + 1) : OccursAt(s, sub, i)}

Contains(s, sub) == Occurrences(s, sub) # {}

\* the entries of attacks and actions an id may refer to
Referable(js) ==
    {js.attacks[i] : i \in 1..Len(js.attacks)}
    \cup {js.actions[i] : i \in 1..Len(js.actions)}

Resolves(id_, js) == \E e \in Referable(js) : e.id = id_

\* the name of the entry id_ refers to (ids are unique in the inputs)
ReferredName(id_, js) == (CHOOSE e \in Referable(js) : e.id = id_).name

\* every id a multiattack group or a legendary action refers to
ReferencedIds(js) ==
    UNION {{js.multiattacks[g].attacks[i] : i \in 1..Len(js.multiattacks[g].attacks)}
           \cup {js.multiattacks[g].actions[i] :
                     i \in 1..Len(js.multiattacks[g].actions)} :
           g \in 1..Len(js.multiattacks)}
    \cup {js.legendaryActions.actions[i].actionId :
              i \in 1..Len(js.legendaryActions.actions)}

\* the positions of ids at which an id occurs for the first time
FirstPositions(ids) ==
    {i \in 1..Len(ids) : \A j \in 1..(i - 1) : ids[j] # ids[i]}

\* the distinct ids in the order of their first occurrence
DistinctInOrder(ids) ==
    [k \in 1..Cardinality(FirstPositions(ids)) |->
        ids[CHOOSE i \in FirstPositions(ids) :
                Cardinality({j \in FirstPositions(ids) : j < i}) = k - 1]]

Occurs(ids, id_) == Cardinality({i \in 1..Len(ids) : ids[i] = id_})

\* "<number-word> <name><suffix>", plural when the count exceeds 1 and the
\* suffix is not empty, one phrase per distinct id
CountPhrases(ids, js, suffix) ==
    [k \in 1..Len(DistinctInOrder(ids)) |->
        LET id_ == DistinctInOrder(ids)[k]
        IN num2words(Occurs(ids, id_)) \o " " \o ReferredName(id_, js) \o suffix
           \o (IF suffix # "" /\ Occurs(ids, id_) > 1 THEN "s" ELSE "")]

\* the attack phrases of a group, "and " before the last of several
AttackPhrases(ids, js) ==
    LET phrases == CountPhrases(ids, js, " attack")
    IN [k \in 1..Len(phrases) |->
           (IF k = Len(phrases) /\ Len(phrases) > 1 THEN "and " ELSE "")
           \o phrases[k]]

\* the input has one multiattack group, whose ids all resolve
OneGroup ==
    /\ Len(json_stats.multiattacks) = 1
    /\ \A id_ \in ReferencedIds(json_stats) : Resolves(id_, json_stats)

\* the text of the Multiattack entry of the returned record
MultiattackText == returned[1].actions[1].desc

\* C1: the actions of the returned record hold an entry named "Multiattack" if
\* and only if the input has at least one multiattack group.
C1_MultiattackIffGroups ==
    Done =>
        ((\E i \in 1..Len(returned[1].actions) :
              returned[1].actions[i].name = "Multiattack")
         <=> json_stats.multiattacks # <<>>)

\* the entry a reference to a non-legendary-only entry is to give
ReferenceEntry(ref, js) ==
    [name |-> IF ref.cost = 1 THEN ReferredName(ref.actionId, js)
              ELSE ReferredName(ref.actionId, js) \o " (Costs " \o Str(ref.cost)
                   \o " Actions)",
     desc |-> "The " \o js.name \o " uses its " \o ReferredName(ref.actionId, js)
              \o " action."]

\* C2: when every reference resolves, legendary_actions of the returned record
\* has one entry per legendary-action reference, in input order, and the entry
\* of a reference to a non-legendary-only entry N with cost c is named N
\* (followed by " (Costs c Actions)" when c # 1) and described as
\* "The <monster name> uses its N action."
C2_LegendaryEntries ==
    Done =>
        LET refs == json_stats.legendaryActions.actions
            out == returned[1].legendary_actions
        IN /\ Len(out) = Len(refs)
           /\ \A i \in 1..Len(refs) :
                  ~(CHOOSE e \in Referable(json_stats) :
                        e.id = refs[i].actionId).legendaryOnly
                  => out[i] = ReferenceEntry(refs[i], json_stats)

\* C3: a conversion whose input refers to an id that is no attack and no action
\* ends in the lookup failure and returns nothing; a conversion whose references
\* all resolve does not end in the lookup failure.
C3_LookupFailure ==
    Ended =>
        IF \E id_ \in ReferencedIds(json_stats) : ~Resolves(id_, json_stats)
        THEN raised = "ValueError" /\ returned = <<>>
        ELSE raised # "ValueError"

\* C4 as stated: for a single group without action ids the Multiattack text
\* is "<name> makes " and the attack phrases one after the other with nothing
\* but a space between them: [A,A,B] gives "makes two A attacks and one B attack."
C4_PhrasesSpaced ==
    (Done /\ OneGroup /\ json_stats.multiattacks[1].actions = <<>>)
    => MultiattackText =
           json_stats.name \o " makes "
           \o Join(" ", AttackPhrases(json_stats.multiattacks[1].attacks, json_stats))
           \o "."

\* C4, amended: for a single group without action ids the Multiattack text is
\* "<name> makes ", then one phrase per distinct attack id in order of first
\* occurrence, each "<number-word of its count> <attack name> attack" with "s"
\* iff the count exceeds 1 and "and " before the last of several, the phrases
\* joined by ", ", then ".": [A,A,B] gives "makes two A attacks, and one B attack."
C4_PhrasesCommaJoined ==
    (Done /\ OneGroup /\ json_stats.multiattacks[1].actions = <<>>)
    => MultiattackText =
           json_stats.name \o " makes "
           \o Join(", ", AttackPhrases(json_stats.multiattacks[1].attacks, json_stats))
           \o "."

\* [A,A,B] has been rendered, with the comma
C4_Witness ==
    /\ Done
    /\ json_stats.multiattacks = <<[attacks |-> <<"a1", "a1", "a2">>, actions |-> <<>>]>>
    /\ MultiattackText = "Orc makes two Bite attacks, and one Claw attack."

\* C5: the phrase of a group that lists an action id is "uses ", the action
\* phrases joined by commas and, when the group lists attacks too,
\* " followed by " and the attack phrases; no action phrase is in the attack part.
C5_UsesActions ==
    (Done /\ OneGroup /\ json_stats.multiattacks[1].actions # <<>>)
    => LET ma == json_stats.multiattacks[1]
       IN MultiattackText =
              json_stats.name \o " uses "
              \o Join(", ", CountPhrases(ma.actions, json_stats, ""))
              \o (IF ma.attacks # <<>>
                  THEN " followed by " \o Join(", ", AttackPhrases(ma.attacks, json_stats))
                  ELSE "")
              \o "."

\* C6: once the traits are built, the conversion has not failed on them and
\* stats holds one entry per trait, in input order, named by the trait name,
\* followed by " (<count>/<rate>)" when the trait has a limited-use count.
C6_TraitsEmitted ==
    TraitsBehind =>
        /\ raised # "AttributeError"
        /\ HasKey(stats, "traits")
        /\ Len(stats.traits) = Len(json_stats.traits)
        /\ \A i \in 1..Len(json_stats.traits) :
               LET t == json_stats.traits[i]
               IN stats.traits[i].name =
                      IF t.limitedUse.count # 0
                      THEN t.name \o " (" \o Str(t.limitedUse.count) \o "/"
                           \o t.limitedUse.rate \o ")"
                      ELSE t.name

\* the saving-throw entry of an ability in an output record, wherever it is
SaveEntries(out) ==
    IF HasKey(out, "saves") THEN out.saves ELSE [stat \in {} |-> 0]

\* C7: the returned record has a saving-throw entry for an ability if and only
\* if the save of the ability is overridden or proficient, and the entry is the
\* override value when overridden, else the ability modifier plus the proficiency.
C7_SavesInOutput ==
    Done =>
        \A a \in DOMAIN AbilityNames :
            LET save == json_stats.saves[a]
                entries == SaveEntries(returned[1])
            IN /\ (AbilityNames[a] \in DOMAIN entries)
                      <=> (save.override \/ save.proficient)
               /\ (save.override \/ save.proficient) =>
                      entries[AbilityNames[a]] =
                          IF save.override THEN save.overrideValue
                          ELSE (json_stats.stats[a] - 10) \div 2
                               + json_stats.proficiency

\* floor(((d+1)/2) * n) + floor((s-10)/2) * n
ExpectedHP(n, d, s) == ((d + 1) * n) \div 2 + ((s - 10) \div 2) * n

\* C8: the hp of stats, and of the returned record, is
\* floor(((d+1)/2) * n) + abilityModifier(CON) * n for n hit dice of type d.
C8_HitPoints ==
    LET expected == ExpectedHP(json_stats.HP.HD, json_stats.HP.type,
                               json_stats.stats["CON"])
    IN /\ HasKey(stats, "hp") => stats.hp = expected
       /\ Done => returned[1].hp = expected

\* an odd dice product with a negative CON modifier: 3d4, CON 7, hp 7 - 6
C8_Witness ==
    /\ Done
    /\ json_stats.HP = [HD |-> 3, type |-> 4]
    /\ json_stats.stats["CON"] = 7
    /\ returned[1].hp = 1

\* C9: the attack text of every RANGED or BOTH attack holds the range clause
\* "range <standard>/<long> ft.", both values joined by a slash.
C9_RangePair ==
    AttacksRendered =>
        \A i \in 1..Len(json_stats.attacks) :
            LET attack == json_stats.attacks[i]
            IN attack.distance \in {"RANGED", "BOTH"} =>
                   Contains(AttackStr(attack, json_stats).val,
                            "range " \o Str(attack.range.standard) \o "/"
                            \o Str(attack.range.long) \o " ft.")

\* the phrase of an additional damage, with modifier 0
ZeroModifierPhrase(d) ==
    Str(((d.dice + 1) * d.count) \div 2) \o " (" \o Str(d.count) \o "d"
    \o Str(d.dice) \o "+0) " \o d.type \o " damage"

\* " plus ", the phrases in order and the k - 1 separators between them
ExpectedExtra(additional) ==
    LET k == Len(additional)
        phrases == [i \in 1..k |-> ZeroModifierPhrase(additional[i])]
    IN " plus "
       \o (IF k = 1 THEN phrases[1]
           ELSE Join(", ", SubSeq(phrases, 1, k - 1)) \o ", and " \o phrases[k])

\* the entry of stats.actions made from the attack (attack names are unique)
AttackEntry(attack) ==
    CHOOSE e \in {stats.actions[i] : i \in 1..Len(stats.actions)} :
        e.name = attack.name

\* C10: the description of an attack with k >= 1 additional damages holds
\* " plus " once, followed by the k phrases (modifier 0) in input order with
\* ", " between them, ", and " before the last of several, and the full stop
\* right after the last; with k = 0 it holds no " plus ".
C10_AdditionalDamage ==
    AttacksRendered =>
        \A i \in 1..Len(json_stats.attacks) :
            LET attack == json_stats.attacks[i]
                desc == AttackEntry(attack).desc
            IN IF attack.additionalDamage = <<>>
               THEN ~Contains(desc, " plus ")
               ELSE /\ Cardinality(Occurrences(desc, " plus ")) = 1
                    /\ Contains(desc, ExpectedExtra(attack.additionalDamage) \o ".")

\* three additional damages have been rendered: ", " then ", and "
C10_Witness ==
    /\ Done
    /\ Len(json_stats.attacks[1].additionalDamage) = 3
    /\ Contains(returned[1].actions[2].desc,
                " plus 3 (1d6+0) cold damage, 9 (3d5+0) fire damage, and 5 (2d4+0) acid damage.")

====
